---- MODULE Spec2Model ----
(* Model of drivers/thermal/sun8i_ths.c: the Allwinner SUN8I thermal sensor   *)
(* driver.  One device lifetime: sun8i_ths_probe (with sun8i_ths_init), the   *)
(* threaded interrupt handler sun8i_ths_irq_thread, the readback callback     *)
(* sun8i_ths_get_temp and sun8i_ths_remove, interleaved with the sensor       *)
(* hardware completing conversions.                                           *)
EXTENDS Integers, Sequences, FiniteSets, TLC

(* ------------------------------------------------------------------------ *)
(* Bounds of the model                                                        *)
(* ------------------------------------------------------------------------ *)
\* raw samples the data registers can hold: 0 and 4096 * (1 .. MaxRaw)
MaxRaw == 1
\* calibration words the calibration region can hold: 0..MaxCal
MaxCal == 1
\* raw values 0 .. MaxConvSmall are passed to the conversion functions alone,
\* besides the fixed ones of ConvRaws
MaxConvSmall == 8

(* ------------------------------------------------------------------------ *)
(* u32 register words.  A word is the set of the positions of its 1 bits, so  *)
(* C's &, | and &~ are intersection, union and difference.                    *)
(* ------------------------------------------------------------------------ *)
\* the word of a number below 2^31
Bits(n) == { k \in 0 .. 30 : (n \div (2 ^ k)) % 2 = 1 }

BIT(n) == { n }

\* x << n
Shl(x, n) == { k + n : k \in x }

BitAnd(a, b) == a \cap b

BitOr(a, b) == a \cup b

\* a & ~m
BitClear(a, m) == a \ m

(* ------------------------------------------------------------------------ *)
(* Register map and bit fields                                                *)
(* ------------------------------------------------------------------------ *)
THS_SUN8I_CTRL0 == 0
THS_SUN8I_CTRL2 == 64
THS_SUN8I_INT_CTRL == 68
THS_SUN8I_STAT == 72
THS_SUN8I_FILTER == 112
THS_SUN8I_CDATA01 == 116
\* mutant: the second calibration register at the offset of the first
THS_SUN8I_CDATA2_Aliased == THS_SUN8I_CDATA01
THS_SUN8I_CDATA2 == 120
THS_SUN8I_DATA0 == 128
THS_SUN8I_DATA1 == 132
THS_SUN8I_DATA2 == 136

THS_SUN8I_CTRL0_SENSOR_ACQ0(x) == Bits(x)
THS_SUN8I_CTRL2_SENSE_EN0 == BIT(0)
THS_SUN8I_CTRL2_SENSE_EN1 == BIT(1)
THS_SUN8I_CTRL2_SENSE_EN2 == BIT(2)
THS_SUN8I_CTRL2_SENSOR_ACQ1(x) == Shl(Bits(x), 16)
THS_SUN8I_INT_CTRL_DATA0_IRQ_EN == BIT(8)
THS_SUN8I_INT_CTRL_DATA1_IRQ_EN == BIT(9)
THS_SUN8I_INT_CTRL_DATA2_IRQ_EN == BIT(10)
THS_SUN8I_INT_CTRL_THERMAL_PER(x) == Shl(Bits(x), 12)
THS_SUN8I_STAT_DATA0_IRQ_STS == BIT(8)
THS_SUN8I_STAT_DATA1_IRQ_STS == BIT(9)
THS_SUN8I_STAT_DATA2_IRQ_STS == BIT(10)
\* 0x777
THS_SUN8I_STAT_CLEAR == Bits(1911)
THS_SUN8I_FILTER_TYPE(x) == Shl(Bits(x), 0)
THS_SUN8I_FILTER_EN == BIT(2)

THS_SUN8I_CLK_IN == 40000000
THS_SUN8I_DATA_PERIOD == 330
THS_SUN8I_FILTER_TYPE_VALUE == 2
THS_SUN8I_FILTER_DIV == 2 ^ (THS_SUN8I_FILTER_TYPE_VALUE + 1)
THS_SUN8I_INT_CTRL_THERMAL_PER_VALUE ==
    ((THS_SUN8I_DATA_PERIOD * (THS_SUN8I_CLK_IN \div 1000))
        \div THS_SUN8I_FILTER_DIV) \div 4096 - 1

THS_SUN8I_CTRL0_SENSOR_ACQ0_VALUE == 63
THS_SUN8I_CTRL2_SENSOR_ACQ1_VALUE == 63

SUN8I_THS_MAX_TZDS == 3

\* errno values; ENOMEM also stands for the other errors of the platform
\* services
EBUSY == 16
EINVAL == 22
ENOMEM == 12

(* ------------------------------------------------------------------------ *)
(* Variant descriptors                                                        *)
(* ------------------------------------------------------------------------ *)
sun8i_ths_h3_sensors ==
    << [data_int_en   |-> THS_SUN8I_INT_CTRL_DATA0_IRQ_EN,
        data_int_flag |-> THS_SUN8I_STAT_DATA0_IRQ_STS,
        data_offset   |-> THS_SUN8I_DATA0,
        sense_en      |-> THS_SUN8I_CTRL2_SENSE_EN0] >>

\* mutant: the second sensor flagged by the first sensor's status bit
sun8i_ths_a83t_sensors_FlagMixup ==
    << [data_int_en   |-> THS_SUN8I_INT_CTRL_DATA0_IRQ_EN,
        data_int_flag |-> THS_SUN8I_STAT_DATA0_IRQ_STS,
        data_offset   |-> THS_SUN8I_DATA0,
        sense_en      |-> THS_SUN8I_CTRL2_SENSE_EN0],
       [data_int_en   |-> THS_SUN8I_INT_CTRL_DATA1_IRQ_EN,
        data_int_flag |-> THS_SUN8I_STAT_DATA0_IRQ_STS,
        data_offset   |-> THS_SUN8I_DATA1,
        sense_en      |-> THS_SUN8I_CTRL2_SENSE_EN1],
       [data_int_en   |-> THS_SUN8I_INT_CTRL_DATA2_IRQ_EN,
        data_int_flag |-> THS_SUN8I_STAT_DATA2_IRQ_STS,
        data_offset   |-> THS_SUN8I_DATA2,
        sense_en      |-> THS_SUN8I_CTRL2_SENSE_EN2] >>

sun8i_ths_a83t_sensors ==
    << [data_int_en   |-> THS_SUN8I_INT_CTRL_DATA0_IRQ_EN,
        data_int_flag |-> THS_SUN8I_STAT_DATA0_IRQ_STS,
        data_offset   |-> THS_SUN8I_DATA0,
        sense_en      |-> THS_SUN8I_CTRL2_SENSE_EN0],
       [data_int_en   |-> THS_SUN8I_INT_CTRL_DATA1_IRQ_EN,
        data_int_flag |-> THS_SUN8I_STAT_DATA1_IRQ_STS,
        data_offset   |-> THS_SUN8I_DATA1,
        sense_en      |-> THS_SUN8I_CTRL2_SENSE_EN1],
       [data_int_en   |-> THS_SUN8I_INT_CTRL_DATA2_IRQ_EN,
        data_int_flag |-> THS_SUN8I_STAT_DATA2_IRQ_STS,
        data_offset   |-> THS_SUN8I_DATA2,
        sense_en      |-> THS_SUN8I_CTRL2_SENSE_EN2] >>

\* calc_temp names the bound conversion function
sun8i_ths_h3_desc ==
    [num_sensors |-> Len(sun8i_ths_h3_sensors),
     sensors     |-> sun8i_ths_h3_sensors,
     calc_temp   |-> "h3",
     has_cal1    |-> FALSE]

sun8i_ths_a83t_desc ==
    [num_sensors |-> Len(sun8i_ths_a83t_sensors),
     sensors     |-> sun8i_ths_a83t_sensors,
     calc_temp   |-> "a83t",
     has_cal1    |-> TRUE]

\* of_device_get_match_data over sun8i_ths_id_table: a pointer to a
\* descriptor (here its name), NULL when no entry matches
sun8i_ths_id_table(compat) ==
    CASE compat = "allwinner,sun8i-h3-ths"   -> "sun8i_ths_h3_desc"
      [] compat = "allwinner,sun8i-a83t-ths" -> "sun8i_ths_a83t_desc"
      [] OTHER                               -> "NULL"

\* dereference of a descriptor pointer
Deref(ptr) ==
    IF ptr = "sun8i_ths_h3_desc" THEN sun8i_ths_h3_desc ELSE sun8i_ths_a83t_desc

(* ------------------------------------------------------------------------ *)
(* Temperature conversion.  The C code forms the u64 product                  *)
(* reg_val * 1000000, divides it (do_div), narrows the quotient to int and    *)
(* subtracts it from the base in int arithmetic (the kernel is built with     *)
(* -fno-strict-overflow, so the subtraction wraps).  The product can exceed   *)
(* the model checker's integers, so a u32 is handled as two 16-bit limbs      *)
(* <<hi, lo>> and only the low 32 bits of the quotient are formed.            *)
(* ------------------------------------------------------------------------ *)
W16 == 65536

Limbs(n) == << n \div W16, n % W16 >>

\* (x * m) mod 2^32, m small
MulLimbs(x, m) ==
    LET p == x[2] * m
    IN  << (x[1] * m + p \div W16) % W16, p % W16 >>

\* (x + y) mod 2^32
AddLimbs(x, y) ==
    LET s == x[2] + y[2]
    IN  << (x[1] + y[1] + s \div W16) % W16, s % W16 >>

\* (x - y) mod 2^32
SubLimbs(x, y) ==
    LET l == x[2] - y[2]
        borrow == IF l < 0 THEN 1 ELSE 0
    IN  << (x[1] - y[1] - borrow) % W16, l % W16 >>

\* (int) of a 32-bit pattern
ToInt(x) ==
    IF x[1] >= 32768 THEN (x[1] - W16) * W16 + x[2] ELSE x[1] * W16 + x[2]

\* low 32 bits of ((u64)reg * 1000000) / d, reg given as limbs
QuotLow32(reg, d) ==
    LET qh == reg[1] \div d
        t  == (reg[1] % d) * W16 + reg[2]
        ql == t \div d
        b  == t % d
        \* reg = a * d + b with a = <<qh, ql>>
        q1 == (b * 1000) \div d
        r1 == (b * 1000) % d
        frac == q1 * 1000 + (r1 * 1000) \div d
    IN  AddLimbs(MulLimbs(MulLimbs(<< qh, ql >>, 1000), 1000), Limbs(frac))

calc_temp_limbs(reg, base, d) == ToInt(SubLimbs(Limbs(base), QuotLow32(reg, d)))

\* mutant: the quotient added to the base
sun8i_ths_calc_temp_h3_added(reg_val) ==
    ToInt(AddLimbs(Limbs(217000), QuotLow32(Limbs(reg_val), 8253)))

sun8i_ths_calc_temp_h3(reg_val) == calc_temp_limbs(Limbs(reg_val), 217000, 8253)

\* mutant: the A83T formula with the divisor of the H3
sun8i_ths_calc_temp_a83t_h3_divisor(reg_val) ==
    calc_temp_limbs(Limbs(reg_val), 192000, 8253)

sun8i_ths_calc_temp_a83t(reg_val) == calc_temp_limbs(Limbs(reg_val), 192000, 14186)

\* (int)temp: the quotient as the int the subtraction uses
narrowed_quot(reg_val, d) == ToInt(QuotLow32(Limbs(reg_val), d))

\* mutant: the descriptors bound to each other's formula
calc_temp_other_variant(d, reg_val) ==
    IF d.calc_temp = "h3" THEN sun8i_ths_calc_temp_a83t(reg_val)
    ELSE sun8i_ths_calc_temp_h3(reg_val)

\* data->desc->calc_temp(reg_val): the call through the descriptor's pointer
calc_temp(d, reg_val) ==
    IF d.calc_temp = "h3" THEN sun8i_ths_calc_temp_h3(reg_val)
    ELSE sun8i_ths_calc_temp_a83t(reg_val)

(* ------------------------------------------------------------------------ *)
(* State                                                                      *)
(* ------------------------------------------------------------------------ *)
VARIABLES
    compatible,     \* the device node's compatible string (platform input)
    plat,           \* the rest of the device node: which of busclk, clk, reset
                    \* and the calibration region it describes, and the two
                    \* words cal0, cal1 the calibration region holds
    data,           \* struct sun8i_ths_data: desc, regs, cal_regs, busclk, clk, reset
    tzds,           \* data->tzds[0..2]: tzd (zone handle) and temp (latched raw)
    irq_installed,  \* devm_request_threaded_irq has installed sun8i_ths_irq_thread
    p,              \* sun8i_ths_probe / sun8i_ths_remove: pc, loop index i, ret
    regs,           \* the device's control and status registers, by offset
    hw,             \* reset line and clock gates: deasserted, bus_on, clk_on
    wlog,           \* the readl/writel calls of probe and remove context, in order
    rlog,           \* reset and clock operations made by probe and remove, in order
    irq,            \* sun8i_ths_irq_thread: pc, status, log of its register
                    \* accesses, notes[c] = notifications of this invocation
    hist,           \* per channel: ever = the handler has read a nonzero
                    \* sample for it
    gt              \* sun8i_ths_get_temp: pc, chan, v (value loaded by the check),
                    \* ret, out = {value written to *out} ({} = untouched), and
                    \* nw = stores to the latch between the check and the
                    \* conversion (2 = two or more)

\* Two observers, which no operation of the driver reads:
VARIABLES
    cv,             \* a caller of the conversion functions: pc, the raw values
                    \* r1, r2 passed and the results t1, t2 returned
    prev            \* where on: the last handler invocation that returned,
                    \* its status word, its data register reads and the
                    \* latched values it left

vars == << compatible, plat, data, tzds, irq_installed, p, regs, hw, wlog, rlog,
           irq, hist, gt, cv, prev >>

Chans == 0 .. (SUN8I_THS_MAX_TZDS - 1)

RawVals == {0} \cup { 4096 * k : k \in 1 .. MaxRaw }
CalVals == { Bits(k) : k \in 0 .. MaxCal }

Compatibles == { "allwinner,sun8i-h3-ths", "allwinner,sun8i-a83t-ths", "none" }

Platforms ==
    [busclk : BOOLEAN, clk : BOOLEAN, reset : BOOLEAN, cal : BOOLEAN,
     cal0 : CalVals, cal1 : CalVals]

\* a device node that describes every resource, with both calibration words
\* programmed
FullPlatform ==
    [busclk |-> TRUE, clk |-> TRUE, reset |-> TRUE, cal |-> TRUE,
     cal0 |-> Bits(MaxCal), cal1 |-> Bits(MaxCal)]

\* data->desc, dereferenced
desc == Deref(data.desc)

\* the registers kept as state; a data register is read from the converter
RegOffsets ==
    { THS_SUN8I_CTRL0, THS_SUN8I_CTRL2, THS_SUN8I_INT_CTRL, THS_SUN8I_STAT,
      THS_SUN8I_FILTER, THS_SUN8I_CDATA01, THS_SUN8I_CDATA2 }

gt_idle ==
    [pc |-> "idle", chan |-> 0, v |-> 0, ret |-> 0, out |-> {}, nw |-> 0]

irq_idle ==
    [pc |-> "idle", status |-> {}, log |-> << >>, notes |-> [c \in Chans |-> 0]]

cv_off == [pc |-> "off", r1 |-> 0, r2 |-> 0, t1 |-> 0, t2 |-> 0]

prev_none(on) ==
    [on |-> on, seen |-> FALSE, status |-> {}, reads |-> << >>,
     temps |-> [c \in Chans |-> 0]]

\* before probe: nothing allocated, the block held in reset with its
\* registers at their reset value, all bits 0
InitDriver ==
    /\ compatible \in Compatibles
    /\ data = [desc |-> "NULL", regs |-> "NULL", cal_regs |-> "NULL",
               busclk |-> "NULL", clk |-> "NULL", reset |-> "NULL"]
    /\ tzds = [c \in Chans |-> [tzd |-> "NULL", temp |-> 0]]
    /\ irq_installed = FALSE
    /\ p = [pc |-> "kzalloc", i |-> 0, ret |-> 0]
    /\ regs = [o \in RegOffsets |-> {}]
    /\ hw = [deasserted |-> FALSE, bus_on |-> FALSE, clk_on |-> FALSE]
    /\ wlog = << >>
    /\ rlog = << >>
    /\ irq = irq_idle
    /\ hist = [c \in Chans |-> [ever |-> FALSE]]
    /\ gt = gt_idle

Init == InitDriver /\ plat = FullPlatform /\ cv = cv_off /\ prev = prev_none(FALSE)

InitAny ==
    InitDriver /\ plat \in Platforms /\ cv = cv_off /\ prev = prev_none(FALSE)

\* an entry of an access log
Acc(op, base, off, val) == [op |-> op, base |-> base, off |-> off, val |-> val]

\* writel(val, data->regs + off) from probe or remove context
writel(val, off) ==
    /\ regs' = [regs EXCEPT ![off] = val]
    /\ wlog' = Append(wlog, Acc("writel", "regs", off, val))

Goto(pc) == p' = [p EXCEPT !.pc = pc]
Fail(ret, pc) == p' = [p EXCEPT !.pc = pc, !.ret = ret]

(* ------------------------------------------------------------------------ *)
(* sun8i_ths_probe                                                            *)
(* ------------------------------------------------------------------------ *)
\* devm_kzalloc: zeroed struct, or -ENOMEM
ProbeAlloc ==
    /\ p.pc = "kzalloc"
    /\ \E ok \in BOOLEAN :
        IF ok THEN Goto("match") ELSE Fail(-ENOMEM, "failed")
    /\ UNCHANGED << cv, prev >>
    /\ UNCHANGED << compatible, plat, data, tzds, irq_installed, regs, hw, wlog,
                    rlog, irq, hist, gt >>

\* of_device_get_match_data
ProbeMatch ==
    /\ p.pc = "match"
    /\ data' = [data EXCEPT !.desc = sun8i_ths_id_table(compatible)]
    /\ IF data'.desc = "NULL" THEN Fail(-EINVAL, "failed") ELSE Goto("map_regs")
    /\ UNCHANGED << cv, prev >>
    /\ UNCHANGED << compatible, plat, tzds, irq_installed, regs, hw, wlog, rlog,
                    irq, hist, gt >>

\* platform_get_resource_byname("ths") and devm_ioremap_resource
ProbeMapRegs ==
    /\ p.pc = "map_regs"
    /\ \E r \in { "ok", "nores", "err" } :
        IF r = "ok"
        THEN /\ data' = [data EXCEPT !.regs = "mapped"]
             /\ Goto("map_cal")
        ELSE /\ data' = data
             /\ Fail(IF r = "nores" THEN -EINVAL ELSE -ENOMEM, "failed")
    /\ UNCHANGED << cv, prev >>
    /\ UNCHANGED << compatible, plat, tzds, irq_installed, regs, hw, wlog, rlog,
                    irq, hist, gt >>

\* the optional "calibration" region: absent, mapped or failing to map
ProbeMapCal ==
    /\ p.pc = "map_cal"
    /\ \E ok \in (IF plat.cal THEN BOOLEAN ELSE { TRUE }) :
        IF ok
        THEN /\ data' = [data EXCEPT
                           !.cal_regs = IF plat.cal THEN "mapped" ELSE "NULL"]
             /\ Goto("get_irq")
        ELSE /\ data' = data
             /\ Fail(-ENOMEM, "failed")
    /\ UNCHANGED << cv, prev >>
    /\ UNCHANGED << compatible, plat, tzds, irq_installed, regs, hw, wlog, rlog,
                    irq, hist, gt >>

\* platform_get_irq
ProbeGetIrq ==
    /\ p.pc = "get_irq"
    /\ \E ok \in BOOLEAN :
        IF ok THEN Goto("request_irq") ELSE Fail(-EINVAL, "failed")
    /\ UNCHANGED << cv, prev >>
    /\ UNCHANGED << compatible, plat, data, tzds, irq_installed, regs, hw, wlog,
                    rlog, irq, hist, gt >>

\* devm_request_threaded_irq(..., sun8i_ths_irq_thread, IRQF_ONESHOT, ...)
ProbeRequestIrq ==
    /\ p.pc = "request_irq"
    /\ \E ok \in BOOLEAN :
        IF ok
        THEN /\ irq_installed' = TRUE
             /\ Goto("get_busclk")
        ELSE /\ irq_installed' = irq_installed
             /\ Fail(-EBUSY, "failed")
    /\ UNCHANGED << cv, prev >>
    /\ UNCHANGED << compatible, plat, data, tzds, regs, hw, wlog, rlog, irq,
                    hist, gt >>

\* devm_clk_get("ahb"): a clock, -ENOENT (kept as NULL) or another error
ProbeGetBusclk ==
    /\ p.pc = "get_busclk"
    /\ \E ok \in BOOLEAN :
        IF ok
        THEN /\ data' = [data EXCEPT
                           !.busclk = IF plat.busclk THEN "clk" ELSE "NULL"]
             /\ Goto("get_clk")
        ELSE /\ data' = data
             /\ Fail(-ENOMEM, "failed")
    /\ UNCHANGED << cv, prev >>
    /\ UNCHANGED << compatible, plat, tzds, irq_installed, regs, hw, wlog, rlog,
                    irq, hist, gt >>

\* devm_clk_get("ths")
ProbeGetClk ==
    /\ p.pc = "get_clk"
    /\ \E ok \in BOOLEAN :
        IF ok
        THEN /\ data' = [data EXCEPT
                           !.clk = IF plat.clk THEN "clk" ELSE "NULL"]
             /\ Goto("get_reset")
        ELSE /\ data' = data
             /\ Fail(-ENOMEM, "failed")
    /\ UNCHANGED << cv, prev >>
    /\ UNCHANGED << compatible, plat, tzds, irq_installed, regs, hw, wlog, rlog,
                    irq, hist, gt >>

\* devm_reset_control_get_optional("ahb"): a control, NULL (none described)
\* or an error
ProbeGetReset ==
    /\ p.pc = "get_reset"
    /\ \E ok \in BOOLEAN :
        IF ok
        THEN /\ data' = [data EXCEPT
                           !.reset = IF plat.reset THEN "rst" ELSE "NULL"]
             /\ Goto("deassert")
        ELSE /\ data' = data
             /\ Fail(-ENOMEM, "failed")
    /\ UNCHANGED << cv, prev >>
    /\ UNCHANGED << compatible, plat, tzds, irq_installed, regs, hw, wlog, rlog,
                    irq, hist, gt >>

\* reset_control_deassert: a NULL control is a no-op returning 0
ProbeDeassert ==
    /\ p.pc = "deassert"
    /\ \E ok \in (IF data.reset = "NULL" THEN { TRUE } ELSE BOOLEAN) :
        IF ok
        THEN /\ hw' = [hw EXCEPT !.deasserted = TRUE]
             /\ rlog' = Append(rlog, "deassert")
             /\ Goto("enable_busclk")
        ELSE /\ UNCHANGED << hw, rlog >>
             /\ Fail(-ENOMEM, "failed")
    /\ UNCHANGED << cv, prev >>
    /\ UNCHANGED << compatible, plat, data, tzds, irq_installed, regs, wlog,
                    irq, hist, gt >>

\* if (data->busclk) clk_prepare_enable(data->busclk)
ProbeEnableBusclk ==
    /\ p.pc = "enable_busclk"
    /\ \E ok \in (IF data.busclk = "NULL" THEN { TRUE } ELSE BOOLEAN) :
        IF data.busclk = "NULL"
        THEN /\ UNCHANGED << hw, rlog >>
             /\ Goto("enable_clk")
        ELSE IF ok
        THEN /\ hw' = [hw EXCEPT !.bus_on = TRUE]
             /\ rlog' = Append(rlog, "enable_busclk")
             /\ Goto("enable_clk")
        ELSE /\ UNCHANGED << hw, rlog >>
             /\ Fail(-ENOMEM, "err_assert_reset")
    /\ UNCHANGED << cv, prev >>
    /\ UNCHANGED << compatible, plat, data, tzds, irq_installed, regs, wlog,
                    irq, hist, gt >>

\* if (data->clk) clk_prepare_enable(data->clk)
ProbeEnableClk ==
    /\ p.pc = "enable_clk"
    /\ \E ok \in (IF data.clk = "NULL" THEN { TRUE } ELSE BOOLEAN) :
        IF data.clk = "NULL"
        THEN /\ UNCHANGED << hw, rlog >>
             /\ Goto("register")
        ELSE IF ok
        THEN /\ hw' = [hw EXCEPT !.clk_on = TRUE]
             /\ rlog' = Append(rlog, "enable_clk")
             /\ Goto("set_rate")
        ELSE /\ UNCHANGED << hw, rlog >>
             /\ Fail(-ENOMEM, "err_disable_bus")
    /\ UNCHANGED << cv, prev >>
    /\ UNCHANGED << compatible, plat, data, tzds, irq_installed, regs, wlog,
                    irq, hist, gt >>

\* clk_set_rate(data->clk, THS_SUN8I_CLK_IN), inside if (data->clk)
ProbeSetRate ==
    /\ p.pc = "set_rate"
    /\ \E ok \in BOOLEAN :
        IF ok THEN Goto("register") ELSE Fail(-EINVAL, "err_disable_ths")
    /\ UNCHANGED << cv, prev >>
    /\ UNCHANGED << compatible, plat, data, tzds, irq_installed, regs, hw, wlog,
                    rlog, irq, hist, gt >>

\* one iteration of the registration loop
ProbeRegister ==
    /\ p.pc = "register"
    /\ p.i < desc.num_sensors
    /\ \E ok \in BOOLEAN :
        IF ok
        THEN /\ tzds' = [tzds EXCEPT ![p.i].tzd = "zone"]
             /\ p' = [p EXCEPT !.i = p.i + 1]
        ELSE /\ tzds' = [tzds EXCEPT ![p.i].tzd = "ERR"]
             /\ Fail(-EINVAL, "err_disable_ths")
    /\ UNCHANGED << cv, prev >>
    /\ UNCHANGED << compatible, plat, data, irq_installed, regs, hw, wlog, rlog,
                    irq, hist, gt >>

\* the loop ends; sun8i_ths_init(data) is entered
ProbeRegistered ==
    /\ p.pc = "register"
    /\ p.i >= desc.num_sensors
    /\ Goto("init_ctrl0")
    /\ UNCHANGED << cv, prev >>
    /\ UNCHANGED << compatible, plat, data, tzds, irq_installed, regs, hw, wlog,
                    rlog, irq, hist, gt >>

\* mutant: err_disable_ths without the test of data->clk
ProbeErrDisableThs_Unconditional ==
    /\ p.pc = "err_disable_ths"
    /\ hw' = [hw EXCEPT !.clk_on = FALSE]
    /\ rlog' = Append(rlog, "disable_clk")
    /\ Goto("err_disable_bus")
    /\ UNCHANGED << cv, prev >>
    /\ UNCHANGED << compatible, plat, data, tzds, irq_installed, regs, wlog,
                    irq, hist, gt >>

\* err_disable_ths: if (data->clk) clk_disable_unprepare(data->clk)
ProbeErrDisableThs ==
    /\ p.pc = "err_disable_ths"
    /\ IF data.clk # "NULL"
       THEN /\ hw' = [hw EXCEPT !.clk_on = FALSE]
            /\ rlog' = Append(rlog, "disable_clk")
       ELSE UNCHANGED << hw, rlog >>
    /\ Goto("err_disable_bus")
    /\ UNCHANGED << cv, prev >>
    /\ UNCHANGED << compatible, plat, data, tzds, irq_installed, regs, wlog,
                    irq, hist, gt >>

\* err_disable_bus: if (data->busclk) clk_disable_unprepare(data->busclk)
ProbeErrDisableBus ==
    /\ p.pc = "err_disable_bus"
    /\ IF data.busclk # "NULL"
       THEN /\ hw' = [hw EXCEPT !.bus_on = FALSE]
            /\ rlog' = Append(rlog, "disable_busclk")
       ELSE UNCHANGED << hw, rlog >>
    /\ Goto("err_assert_reset")
    /\ UNCHANGED << cv, prev >>
    /\ UNCHANGED << compatible, plat, data, tzds, irq_installed, regs, wlog,
                    irq, hist, gt >>

\* err_assert_reset: reset_control_assert(data->reset); return ret
ProbeErrAssertReset ==
    /\ p.pc = "err_assert_reset"
    /\ IF data.reset # "NULL"
       THEN hw' = [hw EXCEPT !.deasserted = FALSE]
       ELSE hw' = hw
    /\ rlog' = Append(rlog, "assert")
    /\ Goto("failed")
    /\ UNCHANGED << cv, prev >>
    /\ UNCHANGED << compatible, plat, data, tzds, irq_installed, regs, wlog,
                    irq, hist, gt >>

(* ------------------------------------------------------------------------ *)
(* sun8i_ths_init, called last by probe                                       *)
(* ------------------------------------------------------------------------ *)
\* the loop over the sensors: ctrl2 |= sense_en, from sensor k on
RECURSIVE OrSenseEn(_, _, _)
OrSenseEn(d, k, acc) ==
    IF k > d.num_sensors THEN acc
    ELSE OrSenseEn(d, k + 1, BitOr(acc, d.sensors[k].sense_en))

\* the loop over the sensors: int_ctrl |= data_int_en, from sensor k on
RECURSIVE OrDataIntEn(_, _, _)
OrDataIntEn(d, k, acc) ==
    IF k > d.num_sensors THEN acc
    ELSE OrDataIntEn(d, k + 1, BitOr(acc, d.sensors[k].data_int_en))

ctrl2_word(d) ==
    OrSenseEn(d, 1,
        BitOr({}, THS_SUN8I_CTRL2_SENSOR_ACQ1(THS_SUN8I_CTRL2_SENSOR_ACQ1_VALUE)))

int_ctrl_word(d) ==
    OrDataIntEn(d, 1,
        BitOr({}, THS_SUN8I_INT_CTRL_THERMAL_PER(THS_SUN8I_INT_CTRL_THERMAL_PER_VALUE)))

InitCtrl0 ==
    /\ p.pc = "init_ctrl0"
    /\ writel(THS_SUN8I_CTRL0_SENSOR_ACQ0(THS_SUN8I_CTRL0_SENSOR_ACQ0_VALUE),
              THS_SUN8I_CTRL0)
    /\ Goto("init_filter")
    /\ UNCHANGED << cv, prev >>
    /\ UNCHANGED << compatible, plat, data, tzds, irq_installed, hw, rlog, irq,
                    hist, gt >>

InitFilter ==
    /\ p.pc = "init_filter"
    /\ writel(BitOr(THS_SUN8I_FILTER_EN,
                    THS_SUN8I_FILTER_TYPE(THS_SUN8I_FILTER_TYPE_VALUE)),
              THS_SUN8I_FILTER)
    /\ Goto("init_cal0")
    /\ UNCHANGED << cv, prev >>
    /\ UNCHANGED << compatible, plat, data, tzds, irq_installed, hw, rlog, irq,
                    hist, gt >>

\* mutant: the calibration word written without the test for zero
cal_programmed_always(cal) == TRUE

\* if (cal0), if (cal1): a word read as zero is not programmed
cal_programmed(cal) == cal # {}

\* if (data->cal_regs) { cal0 = readl(data->cal_regs); if (cal0) writel(...) }
InitCal0 ==
    /\ p.pc = "init_cal0"
    /\ IF data.cal_regs # "NULL"
       THEN LET cal0 == plat.cal0
            IN  /\ IF cal_programmed(cal0)
                   THEN /\ regs' = [regs EXCEPT ![THS_SUN8I_CDATA01] = cal0]
                        /\ wlog' = wlog \o
                             << Acc("readl", "cal_regs", 0, cal0),
                                Acc("writel", "regs", THS_SUN8I_CDATA01, cal0) >>
                   ELSE /\ regs' = regs
                        /\ wlog' = Append(wlog, Acc("readl", "cal_regs", 0, cal0))
                /\ Goto("init_cal1")
       ELSE /\ UNCHANGED << regs, wlog >>
            /\ Goto("init_ctrl2")
    /\ UNCHANGED << cv, prev >>
    /\ UNCHANGED << compatible, plat, data, tzds, irq_installed, hw, rlog, irq,
                    hist, gt >>

\* if (data->desc->has_cal1) { cal1 = readl(data->cal_regs + 4); if (cal1) ... }
InitCal1 ==
    /\ p.pc = "init_cal1"
    /\ IF desc.has_cal1
       THEN LET cal1 == plat.cal1
            IN  IF cal_programmed(cal1)
                THEN /\ regs' = [regs EXCEPT ![THS_SUN8I_CDATA2] = cal1]
                     /\ wlog' = wlog \o
                          << Acc("readl", "cal_regs", 4, cal1),
                             Acc("writel", "regs", THS_SUN8I_CDATA2, cal1) >>
                ELSE /\ regs' = regs
                     /\ wlog' = Append(wlog, Acc("readl", "cal_regs", 4, cal1))
       ELSE UNCHANGED << regs, wlog >>
    /\ Goto("init_ctrl2")
    /\ UNCHANGED << cv, prev >>
    /\ UNCHANGED << compatible, plat, data, tzds, irq_installed, hw, rlog, irq,
                    hist, gt >>

\* mutant: the sense-enable word written to the interrupt control register
InitCtrl2_AtIntCtrl ==
    /\ p.pc = "init_ctrl2"
    /\ writel(ctrl2_word(desc), THS_SUN8I_INT_CTRL)
    /\ Goto("init_int_ctrl")
    /\ UNCHANGED << cv, prev >>
    /\ UNCHANGED << compatible, plat, data, tzds, irq_installed, hw, rlog, irq,
                    hist, gt >>

\* writel(ctrl2, data->regs + THS_SUN8I_CTRL2)
InitCtrl2 ==
    /\ p.pc = "init_ctrl2"
    /\ writel(ctrl2_word(desc), THS_SUN8I_CTRL2)
    /\ Goto("init_int_ctrl")
    /\ UNCHANGED << cv, prev >>
    /\ UNCHANGED << compatible, plat, data, tzds, irq_installed, hw, rlog, irq,
                    hist, gt >>

\* enable interrupts; sun8i_ths_init returns and probe returns 0
InitIntCtrl ==
    /\ p.pc = "init_int_ctrl"
    /\ writel(int_ctrl_word(desc), THS_SUN8I_INT_CTRL)
    /\ p' = [p EXCEPT !.pc = "done", !.ret = 0]
    /\ UNCHANGED << cv, prev >>
    /\ UNCHANGED << compatible, plat, data, tzds, irq_installed, hw, rlog, irq,
                    hist, gt >>

(* ------------------------------------------------------------------------ *)
(* sun8i_ths_remove, and the release of the devm_ resources that follows a    *)
(* failed probe or a remove                                                   *)
(* ------------------------------------------------------------------------ *)
\* reset_control_assert; if (clk) clk_disable_unprepare; if (busclk) ...
sun8i_ths_remove ==
    /\ p.pc = "done"
    /\ hw' = [deasserted |-> IF data.reset # "NULL" THEN FALSE ELSE hw.deasserted,
              clk_on     |-> IF data.clk # "NULL" THEN FALSE ELSE hw.clk_on,
              bus_on     |-> IF data.busclk # "NULL" THEN FALSE ELSE hw.bus_on]
    /\ rlog' = rlog \o << "assert" >>
                    \o (IF data.clk # "NULL" THEN << "disable_clk" >> ELSE << >>)
                    \o (IF data.busclk # "NULL" THEN << "disable_busclk" >>
                        ELSE << >>)
    /\ Goto("removed")
    /\ UNCHANGED << cv, prev >>
    /\ UNCHANGED << compatible, plat, data, tzds, irq_installed, regs, wlog,
                    irq, hist, gt >>

\* devres: the zones are unregistered, the handler is freed (free_irq waits
\* for a running handler) and the regions are unmapped
DevresRelease ==
    /\ p.pc \in { "failed", "removed" }
    /\ irq.pc = "idle"
    /\ gt.pc = "idle"
    /\ tzds' = [c \in Chans |-> [tzds[c] EXCEPT !.tzd = "NULL"]]
    /\ irq_installed' = FALSE
    /\ data' = [data EXCEPT !.regs = "NULL", !.cal_regs = "NULL"]
    /\ Goto("released")
    /\ UNCHANGED << cv, prev >>
    /\ UNCHANGED << compatible, plat, regs, hw, wlog, rlog, irq, hist, gt >>

\* the driver core binds the released device again (sysfs bind, module
\* reload): sun8i_ths_probe starts over on a zeroed sun8i_ths_data.  The
\* block's registers are at their reset value again only if the device node
\* describes a reset line, which remove or the failure path asserted; a
\* block without one keeps what sun8i_ths_init wrote.
Rebind ==
    /\ p.pc = "released"
    /\ data' = [desc |-> "NULL", regs |-> "NULL", cal_regs |-> "NULL",
                busclk |-> "NULL", clk |-> "NULL", reset |-> "NULL"]
    /\ tzds' = [c \in Chans |-> [tzd |-> "NULL", temp |-> 0]]
    /\ p' = [pc |-> "kzalloc", i |-> 0, ret |-> 0]
    /\ regs' = IF plat.reset THEN [o \in RegOffsets |-> {}] ELSE regs
    /\ hw' = [deasserted |-> FALSE, bus_on |-> FALSE, clk_on |-> FALSE]
    /\ wlog' = << >>
    /\ rlog' = << >>
    /\ hist' = [c \in Chans |-> [ever |-> FALSE]]
    /\ UNCHANGED << cv, prev >>
    /\ UNCHANGED << compatible, plat, irq_installed, irq, gt >>

(* ------------------------------------------------------------------------ *)
(* The sensor block                                                           *)
(* ------------------------------------------------------------------------ *)
\* the block converts once a sense-enable bit is set in CTRL2, while it is
\* out of reset and clocked (a control the device node does not describe is
\* not under the driver's control and counts as released / running)
HwRunning ==
    /\ BitAnd(regs[THS_SUN8I_CTRL2],
              BitOr(THS_SUN8I_CTRL2_SENSE_EN0,
                    BitOr(THS_SUN8I_CTRL2_SENSE_EN1, THS_SUN8I_CTRL2_SENSE_EN2))) # {}
    /\ data.reset = "NULL" \/ hw.deasserted
    /\ data.busclk = "NULL" \/ hw.bus_on
    /\ data.clk = "NULL" \/ hw.clk_on

\* a conversion completes and raises the status bit of its channel.  The
\* status word is not assumed to be confined to the channels of the variant.
HwSample ==
    /\ HwRunning
    /\ \E c \in Chans :
        regs' = [regs EXCEPT ![THS_SUN8I_STAT] = BitOr(@, BIT(8 + c))]
    /\ UNCHANGED << cv, prev >>
    /\ UNCHANGED << compatible, plat, data, tzds, irq_installed, p, hw, wlog,
                    rlog, irq, hist, gt >>

\* the interrupt line: a status bit whose interrupt-enable bit is set
IrqPending ==
    BitAnd(BitAnd(regs[THS_SUN8I_STAT], regs[THS_SUN8I_INT_CTRL]),
           BitOr(THS_SUN8I_INT_CTRL_DATA0_IRQ_EN,
                 BitOr(THS_SUN8I_INT_CTRL_DATA1_IRQ_EN,
                       THS_SUN8I_INT_CTRL_DATA2_IRQ_EN))) # {}

(* ------------------------------------------------------------------------ *)
(* sun8i_ths_irq_thread.  IRQF_ONESHOT: one invocation at a time.             *)
(* ------------------------------------------------------------------------ *)
\* status = readl(data->regs + THS_SUN8I_STAT)
IrqReadStatus ==
    /\ irq_installed
    /\ irq.pc = "idle"
    /\ IrqPending
    /\ irq' = [irq EXCEPT
                 !.pc = "clear",
                 !.status = regs[THS_SUN8I_STAT],
                 !.log = << Acc("readl", "regs", THS_SUN8I_STAT,
                                regs[THS_SUN8I_STAT]) >>]
    /\ UNCHANGED << cv, prev >>
    /\ UNCHANGED << compatible, plat, data, tzds, irq_installed, p, regs, hw,
                    wlog, rlog, hist, gt >>

\* writel(THS_SUN8I_STAT_CLEAR, data->regs + THS_SUN8I_STAT): the status bits
\* are cleared by writing 1 to them
IrqClearStatus ==
    /\ irq.pc = "clear"
    /\ regs' = [regs EXCEPT
                  ![THS_SUN8I_STAT] = BitClear(@, THS_SUN8I_STAT_CLEAR)]
    /\ irq' = [irq EXCEPT
                 !.pc = "loop",
                 !.log = Append(@, Acc("writel", "regs", THS_SUN8I_STAT,
                                       THS_SUN8I_STAT_CLEAR))]
    /\ UNCHANGED << cv, prev >>
    /\ UNCHANGED << compatible, plat, data, tzds, irq_installed, p, hw, wlog,
                    rlog, hist, gt >>

\* the store tzd->temp = val of channel c, as seen by a get_temp call g that
\* is between its check and its conversion
GtSees(g, c, val) ==
    IF g.pc = "calc" /\ g.chan = c
    THEN [g EXCEPT !.nw = IF @ < 2 THEN @ + 1 ELSE @]
    ELSE g

\* mutant: the loop without the test of the status word
IrqFlagged_NoStatusTest(status) == 0 .. desc.num_sensors - 1

\* the sensors i (0-based) of the variant with status & zdesc->data_int_flag
IrqFlagged(status) ==
    { i \in 0 .. desc.num_sensors - 1 :
        BitAnd(status, desc.sensors[i + 1].data_int_flag) # {} }

\* mutant: a zero sample filtered out, the previous value kept
IrqStore_KeepOnZero(old, val) == IF val = 0 THEN old ELSE val

\* mutant: a sample equal to the latched value dropped together with it
IrqStore_DropRepeated(old, val) == IF val = old THEN 0 ELSE val

\* the value the loop leaves in tzd->temp after readl returned val
IrqStore(old, val) == val

\* mutant: the update called without the test of the sample
IrqNotifies_Always(temp) == TRUE

\* if (tzd->temp) thermal_zone_device_update(...)
IrqNotifies(temp) == temp # 0

\* mutant: the loop run from the last sensor down to sensor i
RECURSIVE IrqReads_Descending(_, _, _)
IrqReads_Descending(i, flagged, rd) ==
    IF i >= desc.num_sensors THEN << >>
    ELSE IrqReads_Descending(i + 1, flagged, rd) \o
         (IF i \in flagged
          THEN << Acc("readl", "regs", desc.sensors[i + 1].data_offset, rd[i]) >>
          ELSE << >>)

\* the readl calls of the loop from sensor i on, in loop order; rd[i] is what
\* readl returns for sensor i
RECURSIVE IrqReads(_, _, _)
IrqReads(i, flagged, rd) ==
    IF i >= desc.num_sensors THEN << >>
    ELSE (IF i \in flagged
          THEN << Acc("readl", "regs", desc.sensors[i + 1].data_offset, rd[i]) >>
          ELSE << >>) \o IrqReads(i + 1, flagged, rd)

\* for (i = 0; i < data->desc->num_sensors; i++) { ... }: every flagged
\* sensor's data register is read (the converter's current sample, any raw
\* value) and stored.  The iterations touch different channels and a
\* concurrent get_temp reads one channel's latch, so the loop is one step.
IrqChannels ==
    /\ irq.pc = "loop"
    /\ LET flagged == IrqFlagged(irq.status)
       IN  \E rd \in [flagged -> RawVals] :
            /\ tzds' = [c \in Chans |->
                          IF c \in flagged
                          THEN [tzds[c] EXCEPT !.temp = IrqStore(@, rd[c])]
                          ELSE tzds[c]]
            /\ irq' = [irq EXCEPT
                         !.pc = "ret",
                         !.log = @ \o IrqReads(0, flagged, rd),
                         !.notes = [c \in Chans |->
                                      IF c \in flagged /\ IrqNotifies(tzds'[c].temp)
                                      THEN @[c] + 1 ELSE @[c]]]
            /\ hist' = [c \in Chans |->
                          IF c \in flagged
                          THEN [ever |-> hist[c].ever \/ rd[c] # 0]
                          ELSE hist[c]]
            /\ gt' = IF gt.chan \in flagged
                     THEN GtSees(gt, gt.chan, tzds'[gt.chan].temp)
                     ELSE gt
    /\ UNCHANGED << cv, prev >>
    /\ UNCHANGED << compatible, plat, data, irq_installed, p, regs, hw, wlog,
                    rlog >>

\* return IRQ_HANDLED
IrqReturn ==
    /\ irq.pc = "ret"
    /\ irq' = irq_idle
    /\ prev' = IF prev.on
               THEN [on |-> TRUE, seen |-> TRUE, status |-> irq.status,
                     reads |-> SubSeq(irq.log, 3, Len(irq.log)),
                     temps |-> [c \in Chans |-> tzds[c].temp]]
               ELSE prev
    /\ UNCHANGED cv
    /\ UNCHANGED << compatible, plat, data, tzds, irq_installed, p, regs, hw,
                    wlog, rlog, hist, gt >>

(* ------------------------------------------------------------------------ *)
(* sun8i_ths_get_temp, called by the thermal core on a registered zone.       *)
(* tzd->temp is a plain field read without READ_ONCE while the handler may    *)
(* write it: the compiled code either keeps the value loaded by the check    *)
(* for the conversion or loads the field again.                               *)
(* ------------------------------------------------------------------------ *)
\* mutant: the readback without the test for the sentinel
get_temp_unavailable_never(temp) == FALSE

\* tzd->temp == 0
get_temp_unavailable(temp) == temp = 0

\* if (tzd->temp == 0) return -EBUSY;
GetTempCheck ==
    /\ gt.pc = "idle"
    /\ \E c \in Chans :
        /\ tzds[c].tzd = "zone"
        /\ gt' = [gt_idle EXCEPT
                    !.pc = IF get_temp_unavailable(tzds[c].temp)
                           THEN "done" ELSE "calc",
                    !.chan = c,
                    !.v = tzds[c].temp,
                    !.ret = IF get_temp_unavailable(tzds[c].temp)
                            THEN -EBUSY ELSE 0]
    /\ UNCHANGED << cv, prev >>
    /\ UNCHANGED << compatible, plat, data, tzds, irq_installed, p, regs, hw,
                    wlog, rlog, irq, hist >>

\* *out = data->desc->calc_temp(tzd->temp); return 0;
GetTempCalc ==
    /\ gt.pc = "calc"
    /\ \E reg_val \in { gt.v, tzds[gt.chan].temp } :
        gt' = [gt_idle EXCEPT !.pc = "done",
                              !.chan = gt.chan,
                              !.ret = 0,
                              !.out = { calc_temp(desc, reg_val) }]
    /\ UNCHANGED << cv, prev >>
    /\ UNCHANGED << compatible, plat, data, tzds, irq_installed, p, regs, hw,
                    wlog, rlog, irq, hist >>

\* the caller takes the result
GetTempReturn ==
    /\ gt.pc = "done"
    /\ gt' = gt_idle
    /\ UNCHANGED << cv, prev >>
    /\ UNCHANGED << compatible, plat, data, tzds, irq_installed, p, regs, hw,
                    wlog, rlog, irq, hist >>

(* ------------------------------------------------------------------------ *)
(* A caller of the conversion functions alone: two raw values are passed to   *)
(* the calc_temp of the variant's descriptor                                  *)
(* ------------------------------------------------------------------------ *)
\* INT_MAX, the largest value of the int the quotient is narrowed to
INT_MAX == 2147483647

\* the largest raw value whose quotient reg_val * 1000000 / divisor is at
\* most INT_MAX, for the divisors 8253 and 14186
CALC_TEMP_H3_EXACT_MAX == 17723182
CALC_TEMP_A83T_EXACT_MAX == 30464203

\* the raw values passed: the smallest ones, the ends of the 12-bit range
\* of a sample, and the values around the ends of the exact ranges
ConvRaws ==
    (0 .. MaxConvSmall)
      \cup { 4095, 4096, 24000,
              CALC_TEMP_H3_EXACT_MAX, CALC_TEMP_H3_EXACT_MAX + 1,
              CALC_TEMP_A83T_EXACT_MAX, CALC_TEMP_A83T_EXACT_MAX + 1,
              INT_MAX }

InitConv ==
    /\ InitDriver
    /\ compatible # "none"
    /\ plat = FullPlatform
    /\ prev = prev_none(FALSE)
    /\ cv \in [pc : { "call" }, r1 : ConvRaws, r2 : ConvRaws, t1 : { 0 },
                t2 : { 0 }]

\* desc->calc_temp(r1); desc->calc_temp(r2)
CallCalcTemp ==
    /\ cv.pc = "call"
    /\ LET d == Deref(sun8i_ths_id_table(compatible))
       IN  cv' = [cv EXCEPT !.pc = "returned",
                            !.t1 = calc_temp(d, cv.r1),
                            !.t2 = calc_temp(d, cv.r2)]
    /\ UNCHANGED << compatible, plat, data, tzds, irq_installed, p, regs, hw,
                    wlog, rlog, irq, hist, gt, prev >>

(* ------------------------------------------------------------------------ *)
(* Specifications                                                             *)
(* ------------------------------------------------------------------------ *)
\* probe, init, remove and the release of the resources
NextProbe ==
    \/ ProbeAlloc
    \/ ProbeMatch
    \/ ProbeMapRegs
    \/ ProbeMapCal
    \/ ProbeGetIrq
    \/ ProbeRequestIrq
    \/ ProbeGetBusclk
    \/ ProbeGetClk
    \/ ProbeGetReset
    \/ ProbeDeassert
    \/ ProbeEnableBusclk
    \/ ProbeEnableClk
    \/ ProbeSetRate
    \/ ProbeRegister
    \/ ProbeRegistered
    \/ ProbeErrDisableThs
    \/ ProbeErrDisableBus
    \/ ProbeErrAssertReset
    \/ InitCtrl0
    \/ InitFilter
    \/ InitCal0
    \/ InitCal1
    \/ InitCtrl2
    \/ InitIntCtrl
    \/ sun8i_ths_remove
    \/ DevresRelease

\* the block and the interrupt handler
NextIrq ==
    \/ HwSample
    \/ IrqReadStatus
    \/ IrqClearStatus
    \/ IrqChannels
    \/ IrqReturn

\* the readback
NextRead ==
    \/ GetTempCheck
    \/ GetTempCalc
    \/ GetTempReturn

\* attachment without detachment
NextAttach ==
    \/ ProbeAlloc
    \/ ProbeMatch
    \/ ProbeMapRegs
    \/ ProbeMapCal
    \/ ProbeGetIrq
    \/ ProbeRequestIrq
    \/ ProbeGetBusclk
    \/ ProbeGetClk
    \/ ProbeGetReset
    \/ ProbeDeassert
    \/ ProbeEnableBusclk
    \/ ProbeEnableClk
    \/ ProbeSetRate
    \/ ProbeRegister
    \/ ProbeRegistered
    \/ ProbeErrDisableThs
    \/ ProbeErrDisableBus
    \/ ProbeErrAssertReset
    \/ InitCtrl0
    \/ InitFilter
    \/ InitCal0
    \/ InitCal1
    \/ InitCtrl2
    \/ InitIntCtrl

Next == NextProbe \/ NextIrq

\* one device lifetime, from attachment to detachment, with the block
\* converting and the handler running, on a device node that describes every
\* resource.  sun8i_ths_get_temp writes no state of the driver or the block,
\* so its calls are left to SpecRead.
Spec == Init /\ [][Next]_vars

\* attachment and detachment alone, on every device node
SpecProbe == InitAny /\ [][NextProbe]_vars

\* the readback running against the handler and the block on an attached
\* device
SpecRead == Init /\ [][NextAttach \/ NextIrq \/ NextRead]_vars

\* the conversion functions called alone
SpecConv == InitConv /\ [][CallCalcTemp]_vars

\* a device node that describes no clock, no reset line and no calibration
\* cell (every one of them is optional to sun8i_ths_probe)
BarePlatform ==
    [busclk |-> FALSE, clk |-> FALSE, reset |-> FALSE, cal |-> FALSE,
     cal0 |-> Bits(0), cal1 |-> Bits(0)]

\* device lifetimes one after the other, on the full and on the bare node
InitRebind ==
    /\ InitDriver
    /\ plat \in { FullPlatform, BarePlatform }
    /\ cv = cv_off
    /\ prev = prev_none(FALSE)

SpecRebind == InitRebind /\ [][NextProbe \/ NextIrq \/ Rebind]_vars

\* consecutive interrupts on an attached device, the last invocation recorded
InitRec == InitDriver /\ plat = FullPlatform /\ cv = cv_off /\ prev = prev_none(TRUE)

SpecRec == InitRec /\ [][NextAttach \/ NextIrq]_vars

\* the converter completes a sample of channel c
HwSampleOf(c) ==
    HwSample /\ regs'[THS_SUN8I_STAT] = BitOr(regs[THS_SUN8I_STAT], BIT(8 + c))

\* periodic sampling of every channel, and an interrupt line that is served:
\* a handler that can be entered infinitely often is entered, and an
\* invocation runs to its return
Fairness ==
    /\ \A c \in Chans : SF_vars(HwSampleOf(c))
    /\ SF_vars(IrqReadStatus)
    /\ SF_vars(IrqClearStatus)
    /\ SF_vars(IrqChannels)
    /\ SF_vars(IrqReturn)

\* an attached device under periodic sampling and fair interrupt delivery
SpecLive == Init /\ [][NextAttach \/ NextIrq]_vars /\ Fairness

(* ------------------------------------------------------------------------ *)
(* Vocabulary of the properties                                               *)
(* ------------------------------------------------------------------------ *)
\* the status bit and the data register of channel c
ChanStatusBit(c) ==
    CASE c = 0 -> THS_SUN8I_STAT_DATA0_IRQ_STS
      [] c = 1 -> THS_SUN8I_STAT_DATA1_IRQ_STS
      [] c = 2 -> THS_SUN8I_STAT_DATA2_IRQ_STS

ChanDataOffset(c) ==
    CASE c = 0 -> THS_SUN8I_DATA0
      [] c = 1 -> THS_SUN8I_DATA1
      [] c = 2 -> THS_SUN8I_DATA2

IsH3 == compatible = "allwinner,sun8i-h3-ths"
IsA83t == compatible = "allwinner,sun8i-a83t-ths"

\* the channel count and the conversion of the device's variant
VariantChannels == IF IsH3 THEN 1 ELSE IF IsA83t THEN 3 ELSE 0
VariantConvert(r) ==
    IF IsH3 THEN sun8i_ths_calc_temp_h3(r) ELSE sun8i_ths_calc_temp_a83t(r)

\* channel c is flagged in the status word the running invocation read
Flagged(c) == c < VariantChannels /\ BitAnd(irq.status, ChanStatusBit(c)) # {}

\* the values the invocation whose log is given read from c's data register
DataRead(log, c) ==
    { log[k].val : k \in { j \in DOMAIN log :
                             /\ log[j].op = "readl"
                             /\ log[j].off = ChanDataOffset(c) } }

\* this step completes a get_temp call
GtCompletes == gt.pc # "done" /\ gt'.pc = "done"

\* the result g of a get_temp call is the one for the latched value v
Outcome(g, v) ==
    IF v = 0 THEN g.ret = -EBUSY /\ g.out = {}
    ELSE g.ret = 0 /\ g.out = { VariantConvert(v) }

\* this step is the handler's loop over the sensors
IrqLoopStep == irq.pc = "loop" /\ irq'.pc = "ret"

(* ------------------------------------------------------------------------ *)
(* Properties                                                                 *)
(* ------------------------------------------------------------------------ *)
\* C1 (as claimed; refuted under SpecRead): a get_temp call that overlaps at
\* most one store to its channel's latch ends with the result for the value
\* the latch had before the store or for the value stored: -EBUSY with *out
\* untouched for 0, success with convert(v) otherwise.  (With at most one
\* store since the check, the value before is the one the check loaded and
\* the value after is the one the latch holds.)
C1_RaceOutcome ==
    [][(GtCompletes /\ gt.nw <= 1)
         => \E v \in (IF gt.pc = "idle" THEN { tzds[gt'.chan].temp }
                      ELSE { gt.v, tzds[gt.chan].temp }) : Outcome(gt', v)]_vars

\* C2 (as claimed; refuted under Spec): a latched value that is nonzero never
\* becomes zero again.
C2_NeverBackToUnavailable ==
    [][\A c \in Chans : tzds[c].temp # 0 => tzds'[c].temp # 0]_vars

\* C2 (amended): a nonzero latched value becomes zero again only in the
\* handler's loop, for a channel flagged in the status word read, whose data
\* register the handler read as 0.
C2_BackToZeroOnlyByZeroSample ==
    [][\A c \in Chans :
         (tzds[c].temp # 0 /\ tzds'[c].temp = 0)
            => (IrqLoopStep /\ Flagged(c) /\ DataRead(irq'.log, c) = { 0 })]_vars

\* a channel that held a nonzero sample is back at zero after a zero sample
C2_Witness ==
    \E c \in Chans :
        /\ irq.pc = "ret"
        /\ hist[c].ever
        /\ tzds[c].temp = 0
        /\ DataRead(irq.log, c) = { 0 }

\* C3: a get_temp call on a channel for which no interrupt has yet delivered
\* a nonzero sample returns -EBUSY and leaves *out untouched.
C3_UnavailableBeforeFirstSample ==
    [][\A c \in Chans :
         (GtCompletes /\ gt'.chan = c /\ ~hist[c].ever)
            => (gt'.ret = -EBUSY /\ gt'.out = {})]_vars

\* the probe is over, an interrupt has flagged the channel with a zero
\* sample, and get_temp has returned -EBUSY on it
C3_Witness ==
    /\ p.pc = "done"
    /\ irq.pc = "ret"
    /\ Flagged(gt.chan)
    /\ DataRead(irq.log, gt.chan) = { 0 }
    /\ gt.pc = "done"
    /\ gt.ret = -EBUSY
    /\ gt.out = {}
    /\ ~hist[gt.chan].ever

\* C4: a get_temp call on channel c made after the handler latched the
\* sample r > 0 for c, with no store to c's latch in between, returns 0 and
\* writes the variant's own conversion of r.
C4_ReadbackConvertsLatched ==
    [][\A c \in Chans : \A r \in RawVals \ { 0 } :
         (GtCompletes /\ gt'.chan = c /\ gt.nw = 0 /\ tzds[c].temp = r)
            => (gt'.ret = 0 /\ gt'.out = { VariantConvert(r) })]_vars

\* on the 3-channel variant channel 2 was latched with 0x1000 and read back
C4_Witness ==
    /\ IsA83t
    /\ gt.pc = "done"
    /\ gt.chan = 2
    /\ gt.ret = 0
    /\ tzds[2].temp = 4096
    /\ gt.out = { sun8i_ths_calc_temp_a83t(4096) }

\* the number of notifications of channel c the running invocation owes
OwedNotes(c) ==
    IF Flagged(c) /\ DataRead(irq.log, c) # {} /\ 0 \notin DataRead(irq.log, c)
    THEN 1 ELSE 0

\* C5: when the handler's loop is over, channel c has been notified exactly
\* once if its status bit was set in the status word read and its data
\* register read nonzero, and not at all otherwise; before the loop nothing
\* has been notified.
C5_NotifyIffFlaggedNonzero ==
    /\ irq.pc = "ret" => \A c \in Chans : irq.notes[c] = OwedNotes(c)
    /\ irq.pc # "ret" => \A c \in Chans : irq.notes[c] = 0

\* 3-channel variant, status bits of channels 0 and 2 set, both data
\* registers reading 0x1000: two notifications, channel 1 still without a
\* sample
C5_Witness ==
    /\ IsA83t
    /\ irq.pc = "ret"
    /\ BitAnd(irq.status, THS_SUN8I_STAT_CLEAR) =
         BitOr(ChanStatusBit(0), ChanStatusBit(2))
    /\ DataRead(irq.log, 0) = { 4096 }
    /\ DataRead(irq.log, 2) = { 4096 }
    /\ irq.notes = [c \in Chans |-> IF c = 1 THEN 0 ELSE 1]
    /\ tzds[1].temp = 0

C7_ChannelIndependence ==
    [][\A c \in Chans :
         /\ (IrqLoopStep /\ ~Flagged(c))
               => /\ tzds'[c] = tzds[c]
                  /\ DataRead(irq'.log, c) = {}
                  /\ irq'.notes[c] = 0
         /\ ~IrqLoopStep => tzds'[c].temp = tzds[c].temp
         /\ c >= VariantChannels => tzds'[c].temp = 0]_vars

\* the 1-channel variant handled an interrupt with the status bits of
\* channels 1 and 2 set as well: channel 0 latched, slots 1 and 2 still 0
C7_Witness ==
    /\ IsH3
    /\ irq.pc = "ret"
    /\ THS_SUN8I_STAT_CLEAR \cap irq.status =
         ChanStatusBit(0) \cup ChanStatusBit(1) \cup ChanStatusBit(2)
    /\ tzds[0].temp # 0
    /\ tzds[1].temp = 0
    /\ tzds[2].temp = 0

\* the register writes of a log, and their offsets, in order
RegWrites(log) ==
    SelectSeq(log, LAMBDA a : a.op = "writel" /\ a.base = "regs")
Offsets(log) == [k \in DOMAIN log |-> log[k].off]

IsPrefix(s, t) == Len(s) <= Len(t) /\ SubSeq(t, 1, Len(s)) = s

\* the orders of register writes sun8i_ths_init may perform
InitOrders ==
    { << THS_SUN8I_CTRL0, THS_SUN8I_FILTER >> \o cal
        \o << THS_SUN8I_CTRL2, THS_SUN8I_INT_CTRL >> :
      cal \in { << >>, << THS_SUN8I_CDATA01 >>, << THS_SUN8I_CDATA2 >>,
                << THS_SUN8I_CDATA01, THS_SUN8I_CDATA2 >> } }

\* sun8i_ths_init has returned
InitOver == p.pc \in { "done", "removed" }

\* C8: the register writes of initialization are, in this order, CTRL0 (with
\* the acquisition time 0x3f), FILTER, CDATA01 and CDATA2 (each only if
\* performed), CTRL2, INT_CTRL: at every moment the writes done are a
\* prefix of that order, and when initialization is over they are all of it.
C8_InitWriteOrder ==
    /\ \E o \in InitOrders :
          /\ IsPrefix(Offsets(RegWrites(wlog)), o)
          /\ InitOver => Offsets(RegWrites(wlog)) = o
    /\ RegWrites(wlog) # << >> => RegWrites(wlog)[1].val = Bits(63)

\* initialization is over with both calibration registers written
C8_Witness ==
    /\ InitOver
    /\ Offsets(RegWrites(wlog)) =
         << THS_SUN8I_CTRL0, THS_SUN8I_FILTER, THS_SUN8I_CDATA01,
            THS_SUN8I_CDATA2, THS_SUN8I_CTRL2, THS_SUN8I_INT_CTRL >>

\* the accesses of a log to the calibration region and registers
CalAccesses(log) ==
    SelectSeq(log, LAMBDA a :
        \/ a.base = "cal_regs"
        \/ a.off \in { THS_SUN8I_CDATA01, THS_SUN8I_CDATA2 })

\* the calibration accesses owed for the platform's region and the variant
OwedCalAccesses ==
    IF ~plat.cal THEN << >>
    ELSE << Acc("readl", "cal_regs", 0, plat.cal0) >>
         \o (IF plat.cal0 # {}
             THEN << Acc("writel", "regs", THS_SUN8I_CDATA01, plat.cal0) >>
             ELSE << >>)
         \o (IF IsA83t
             THEN << Acc("readl", "cal_regs", 4, plat.cal1) >>
                  \o (IF plat.cal1 # {}
                      THEN << Acc("writel", "regs", THS_SUN8I_CDATA2,
                                  plat.cal1) >>
                      ELSE << >>)
             ELSE << >>)

\* C9: when initialization is over, its accesses to the calibration region
\* and registers are exactly: with a region, the read of the first word and
\* CDATA01 := cal0 iff cal0 # 0, then, iff has_cal1, the read of the second
\* word and CDATA2 := cal1 iff cal1 # 0; without a region, none, and the
\* probe does not fail for the absence of the region.
C9_CalibrationWrites ==
    /\ [](InitOver => CalAccesses(wlog) = OwedCalAccesses)
    /\ [][(p.pc = "map_cal" /\ ~plat.cal) => p'.pc = "get_irq"]_vars

\* a zero first word and a nonzero second word: only CDATA2 is written
C9_Witness ==
    /\ InitOver
    /\ IsA83t
    /\ plat.cal
    /\ plat.cal0 = {}
    /\ plat.cal1 # {}
    /\ Offsets(RegWrites(CalAccesses(wlog))) = << THS_SUN8I_CDATA2 >>

\* the number of writes of a log to the register at off
WritesTo(log, off) ==
    Len(SelectSeq(RegWrites(log), LAMBDA a : a.off = off))

\* C10: over the device's lifetime each of CDATA01 and CDATA2 is written at
\* most once, by initialization and before the write of INT_CTRL; no step
\* of the interrupt handler or of teardown writes or changes either.
C10_CalibrationWrittenOnce ==
    /\ [](\A off \in { THS_SUN8I_CDATA01, THS_SUN8I_CDATA2 } :
            /\ WritesTo(wlog, off) <= 1
            /\ WritesTo(irq.log, off) = 0)
    /\ [][\A off \in { THS_SUN8I_CDATA01, THS_SUN8I_CDATA2 } :
            (regs'[off] # regs[off] \/ WritesTo(wlog', off) # WritesTo(wlog, off))
               => /\ p.pc \in { "init_cal0", "init_cal1" }
                  /\ WritesTo(wlog, THS_SUN8I_INT_CTRL) = 0
                  /\ WritesTo(wlog', off) = 1]_vars

\* after an interrupt was handled and the device removed, both calibration
\* registers hold what initialization wrote to them, once
C10_Witness ==
    /\ p.pc = "removed"
    /\ IsA83t
    /\ \E c \in Chans : hist[c].ever
    /\ WritesTo(wlog, THS_SUN8I_CDATA01) = 1
    /\ WritesTo(wlog, THS_SUN8I_CDATA2) = 1
    /\ regs[THS_SUN8I_CDATA01] = plat.cal0
    /\ regs[THS_SUN8I_CDATA2] = plat.cal1

\* sun8i_ths_probe has returned an error
ProbeFailed == p.pc = "failed"

\* C11 (as claimed; refuted under SpecProbe): when sun8i_ths_probe has
\* failed, the interrupt handler was not installed at any point of the
\* attachment (the installation, once made, lasts until the devm_ resources
\* are released after the return) and sun8i_ths_init has made no register
\* write.
C11_FailedProbeNeverInstalled ==
    ProbeFailed => (~irq_installed /\ RegWrites(wlog) = << >>)

\* the acquisitions and the releases of a log of reset and clock operations
Acquires(log) ==
    SelectSeq(log, LAMBDA o : o \in { "deassert", "enable_busclk", "enable_clk" })
Releases(log) ==
    SelectSeq(log, LAMBDA o : o \in { "assert", "disable_busclk", "disable_clk" })

\* the release that undoes an acquisition
UndoOf(o) ==
    CASE o = "deassert" -> "assert"
      [] o = "enable_busclk" -> "disable_busclk"
      [] o = "enable_clk" -> "disable_clk"

\* the releases that undo the acquisitions acq, last acquired first
Undo(acq) == [k \in DOMAIN acq |-> UndoOf(acq[Len(acq) + 1 - k])]

\* C12 (as claimed; refuted under SpecProbe): when sun8i_ths_remove has
\* returned, the reset and clock releases made are those undoing probe's
\* acquisitions in the strict reverse of the order of acquisition: the
\* sensor clock disabled, then the bus clock, then reset asserted.
C12_RemoveReversesProbe ==
    p.pc = "removed" => Releases(rlog) = Undo(Acquires(rlog))

\* sun8i_ths_remove has asserted reset and disabled the clocks
Removed == p.pc \in { "removed", "released" }

\* this step of the handler reads or writes a device register
IrqAccessStep == Len(irq'.log) > Len(irq.log)

\* C13 (as claimed; refuted under Spec): in every interleaving of
\* detachment with interrupt delivery, no step of the interrupt handler
\* reads or writes a device register after sun8i_ths_remove has asserted
\* reset and disabled the clocks.
C13_NoAccessAfterRemove == [][Removed => ~IrqAccessStep]_vars

\* the base and the divisor of the variant's formula, and the largest raw
\* value whose quotient fits int
ConvBase == IF IsH3 THEN 217000 ELSE 192000
ConvDivisor == IF IsH3 THEN 8253 ELSE 14186
ConvExactMax == IF IsH3 THEN CALC_TEMP_H3_EXACT_MAX ELSE CALC_TEMP_A83T_EXACT_MAX

\* r * 1000000 div d by long division, for r whose quotient fits int:
\* r = k * d + m and m * 1000 = k2 * d + m2 give
\* r * 1000000 div d = k * 1000000 + k2 * 1000 + (m2 * 1000) div d
RefQuot(r, d) ==
    LET k  == r \div d
        m  == r % d
        k2 == (m * 1000) \div d
        m2 == (m * 1000) % d
    IN  k * 1000000 + k2 * 1000 + (m2 * 1000) \div d

\* the conversion of r is exact: the narrowing kept the quotient and the
\* result t is base - (r * 1000000 div divisor)
ConvExact(r, t) ==
    /\ narrowed_quot(r, ConvDivisor) = RefQuot(r, ConvDivisor)
    /\ t = ConvBase - RefQuot(r, ConvDivisor)

\* C14 (as claimed; refuted under SpecConv): for every raw value passed, the
\* narrowing of the quotient to int loses no value, so the narrowed quotient
\* is not negative and the result is at most the base, and the result is
\* base - (r * 1000000 div divisor) (compared where that fits the integers
\* of the checker).
C14_ConversionExactEverywhere ==
    cv.pc = "returned" =>
        /\ narrowed_quot(cv.r1, ConvDivisor) >= 0
        /\ cv.t1 <= ConvBase
        /\ cv.r1 <= ConvExactMax => ConvExact(cv.r1, cv.t1)

\* C14 (amended): for every raw value r up to the largest one whose quotient
\* fits int (17723182 for the H3, 30464203 for the A83T, so every 12-bit
\* sample), the narrowing loses no value and the result is
\* base - (r * 1000000 div divisor), the division truncating; for the next
\* raw value the quotient no longer fits int and is narrowed to a negative
\* int.
C14_ConversionExactInRange ==
    cv.pc = "returned" =>
        /\ cv.r1 <= ConvExactMax => ConvExact(cv.r1, cv.t1)
        /\ cv.r1 = ConvExactMax + 1 => narrowed_quot(cv.r1, ConvDivisor) < 0

\* the H3 formula applied to 24000: 217000 - (24000000000 div 8253), the
\* quotient 2908033 truncated from 2908033.4...
C14_Witness ==
    /\ IsH3
    /\ cv.pc = "returned"
    /\ cv.r1 = 24000
    /\ RefQuot(24000, 8253) = 2908033
    /\ cv.t1 = 217000 - 2908033

\* C15 (as claimed; refuted under SpecConv): for all raw values r1 < r2
\* passed, the result for r1 is at least the result for r2.
C15_MonotoneEverywhere ==
    (cv.pc = "returned" /\ cv.r1 < cv.r2) => cv.t1 >= cv.t2

\* C15 (amended): for all raw values r1 < r2 up to the largest one whose
\* quotient fits int (so for all 12-bit samples), the result for r1 is at
\* least the result for r2, and indeed greater (both divisors are below
\* 1000000, so a step of 1 in the raw value lowers the result).
C15_MonotoneInRange ==
    (cv.pc = "returned" /\ cv.r1 < cv.r2 /\ cv.r2 <= ConvExactMax)
        => cv.t1 > cv.t2

\* two samples of the 12-bit range, the larger converted to the lower
\* temperature
C15_Witness ==
    /\ cv.pc = "returned"
    /\ cv.r1 = 4095
    /\ cv.r2 = 4096
    /\ cv.t1 > cv.t2

\* the data register reads of the running invocation, after its loop
IrqDataReads == SubSeq(irq.log, 3, Len(irq.log))

\* the invocation whose loop is over is a duplicate of the last one that
\* returned: the same status word was read and the same values were read
\* from the same data registers
DuplicateInterrupt ==
    /\ irq.pc = "ret"
    /\ prev.seen
    /\ irq.status = prev.status
    /\ IrqDataReads = prev.reads

\* what sun8i_ths_get_temp returns for a channel latched at temp, called
\* with no handler running: << return value, {value written to *out} >>
Readback(temp) ==
    IF get_temp_unavailable(temp) THEN << -EBUSY, {} >>
    ELSE << 0, { calc_temp(desc, temp) } >>

\* C16: after the loop of an invocation that read the same status word and
\* the same data register values as the invocation before it, every
\* channel's latched value, and so the result of get_temp on it, is what the
\* invocation before left.
C16_DuplicateInterruptIdempotent ==
    DuplicateInterrupt =>
        \A c \in Chans :
            /\ tzds[c].temp = prev.temps[c]
            /\ Readback(tzds[c].temp) = Readback(prev.temps[c])

\* the 3-channel variant handled the same interrupt twice: channels 0 and 1
\* flagged, channel 0 reading 0x1000 and channel 1 reading 0
C16_Witness ==
    /\ IsA83t
    /\ DuplicateInterrupt
    /\ Flagged(0) /\ Flagged(1) /\ ~Flagged(2)
    /\ DataRead(irq.log, 0) = { 4096 }
    /\ DataRead(irq.log, 1) = { 0 }
    /\ tzds[0].temp = 4096
    /\ tzds[1].temp = 0

\* the channels flagged in the status word the running invocation read, in
\* ascending index
AscFlagged == SelectSeq(<< 0, 1, 2 >>, Flagged)

\* the register accesses of the running invocation from the third on are
\* exactly reads of the data registers of the flagged channels, ascending
DataReadsAscending ==
    /\ Len(irq.log) = 2 + Len(AscFlagged)
    /\ \A k \in 1 .. Len(AscFlagged) :
        /\ irq.log[2 + k].op = "readl"
        /\ irq.log[2 + k].base = "regs"
        /\ irq.log[2 + k].off = ChanDataOffset(AscFlagged[k])

\* this step adds register accesses of the handler to those already made
IrqLogGrows == irq'.log # irq.log /\ irq'.log # << >>

\* C17: an invocation of the handler first reads STAT, once, then writes
\* 0x777 to STAT, once, then reads the data registers of the channels flagged
\* in the status word it read, in ascending channel index and no others, all
\* of them before it returns; an invocation's accesses are only ever appended
\* to its own, one invocation being in progress at a time (IRQF_ONESHOT).
C17_HandlerAccessOrder ==
    /\ [](irq.pc = "idle" => irq.log = << >>)
    /\ [](irq.pc # "idle" =>
            irq.log[1] = Acc("readl", "regs", THS_SUN8I_STAT, irq.status))
    /\ [](irq.pc = "clear" => Len(irq.log) = 1)
    /\ [](irq.pc \in { "loop", "ret" } =>
            irq.log[2] = Acc("writel", "regs", THS_SUN8I_STAT,
                             THS_SUN8I_STAT_CLEAR))
    /\ [](irq.pc = "loop" => Len(irq.log) = 2)
    /\ [](irq.pc = "ret" => DataReadsAscending)
    /\ [][IrqLogGrows =>
            \/ irq.pc = "idle" /\ Len(irq'.log) = 1
            \/ irq.pc # "idle" /\ IsPrefix(irq.log, irq'.log)]_vars

\* the 3-channel variant's handler about to return, having read a status
\* word with channels 0 and 2 flagged and channel 1 not: four accesses, the
\* reads of DATA0 and DATA2 last, in that order
C17_Witness ==
    /\ IsA83t
    /\ irq.pc = "ret"
    /\ Flagged(0) /\ ~Flagged(1) /\ Flagged(2)
    /\ Offsets(irq.log) = << THS_SUN8I_STAT, THS_SUN8I_STAT,
                             THS_SUN8I_DATA0, THS_SUN8I_DATA2 >>

\* the block has set the status bit of channel c of an initialised device
StatusRaised(c) ==
    /\ p.pc = "done"
    /\ c < VariantChannels
    /\ BitAnd(regs[THS_SUN8I_STAT], ChanStatusBit(c)) # {}

\* the handler's loop has just stored a sample of channel c
Updated(c) == irq.pc = "ret" /\ Flagged(c)

\* C18: under periodic sampling and fair interrupt delivery, whenever the
\* block has raised the status bit of a channel, the handler eventually
\* stores a sample of that channel, also when the bit was raised between
\* the handler's read of STAT and its write of 0x777.
C18_MissedBitOnlyDefers ==
    \A c \in Chans : StatusRaised(c) ~> Updated(c)

\* the operations that occur in a log
Range(log) == { log[k] : k \in DOMAIN log }

\* probe is past its last failure point: in sun8i_ths_init or returned 0
ProbeSucceeding ==
    p.pc \in { "init_ctrl0", "init_filter", "init_cal0", "init_cal1",
               "init_ctrl2", "init_int_ctrl", "done" }

\* no operation occurs twice in the log
OnceEach(log) == \A j, k \in DOMAIN log : log[j] = log[k] => j = k

\* C19: when sun8i_ths_probe has returned an error, the releases it made
\* are exactly those undoing the acquisitions it made, each once, the last
\* acquired released first and all of them after the acquisitions: the
\* sensor clock is disabled iff it exists and was enabled, the bus clock iff
\* it exists and was enabled, reset is asserted iff it was deasserted, and
\* the clocks are left off and the reset line, if the device node describes
\* one, asserted; while probe is on its way to returning 0 it has
\* released nothing.
C19_RollbackExact ==
    /\ ProbeFailed =>
        /\ rlog = Acquires(rlog) \o Releases(rlog)
        /\ Releases(rlog) = Undo(Acquires(rlog))
        /\ OnceEach(rlog)
        /\ "disable_clk" \in Range(rlog) <=>
               (data.clk # "NULL" /\ "enable_clk" \in Range(rlog))
        /\ "disable_busclk" \in Range(rlog) <=>
               (data.busclk # "NULL" /\ "enable_busclk" \in Range(rlog))
        /\ "assert" \in Range(rlog) <=> "deassert" \in Range(rlog)
        /\ ~hw.clk_on /\ ~hw.bus_on
        /\ data.reset # "NULL" => ~hw.deasserted
    /\ ProbeSucceeding => Releases(rlog) = << >>

\* probe failed registering a zone on a device node without a sensor clock:
\* the rollback went through err_disable_ths, disabled the bus clock alone
\* and asserted reset
C19_Witness ==
    /\ ProbeFailed
    /\ p.ret = -EINVAL
    /\ data.clk = "NULL"
    /\ data.busclk # "NULL"
    /\ rlog = << "deassert", "enable_busclk", "disable_busclk", "assert" >>

\* every zone of the variant is registered
ZonesRegistered == \A c \in 0 .. VariantChannels - 1 : tzds[c].tzd = "zone"

\* C20 (as claimed; refuted under SpecRebind): while an invocation of the
\* handler is in progress, every zone of the variant is registered and
\* sun8i_ths_init has made all its register writes.  The handler is entered
\* only for a status bit whose enable bit is set in INT_CTRL.
C20_NoInvocationBeforeRegistered ==
    irq.pc # "idle" => (ZonesRegistered /\ InitOver)

====
